---------------------------- MODULE Spec2Model ----------------------------
(***************************************************************************)
(* Model of defuse's sandbox backend selection and execution engine        *)
(* (src/src/defuse/sandbox.py): SandboxCapabilities (probing and ranking), *)
(* SandboxedDownloader (the four run_<backend>_download invokers and the   *)
(* sandboxed_download orchestrator).                                       *)
(*                                                                         *)
(* Spec is the host side: construction, then sandboxed_download calls.     *)
(* FetchSpec is the fetch program that runs inside the sandbox: the script *)
(* written by create_download_script and the inline program of the Docker  *)
(* and Podman invokers, for one url, configuration and server response.    *)
(***************************************************************************)
EXTENDS Integers, Sequences, FiniteSets, TLC

(***************************************************************************)
(* Enumerations                                                            *)
(***************************************************************************)

\* SandboxBackend enum values
AUTO == "auto"
FIREJAIL == "firejail"
BUBBLEWRAP == "bubblewrap"
PODMAN == "podman"
DOCKER == "docker"

\* The concrete backends (every SandboxBackend member except AUTO)
Backends == {FIREJAIL, BUBBLEWRAP, PODMAN, DOCKER}

\* Every member of the SandboxBackend enum
SandboxBackend == {AUTO} \cup Backends

\* IsolationLevel enum values
NONE == "none"
BASIC == "basic"
STRICT == "strict"
PARANOID == "paranoid"

IsolationLevel == {NONE, BASIC, STRICT, PARANOID}

(***************************************************************************)
(* The host as the probes of one construction see it                       *)
(***************************************************************************)

\* platform.system().lower() on the hosts considered
Platforms == {"linux", "darwin", "windows"}

\* What probing one container runtime meets: shutil.which finds no binary
\* ("missing"), or the binary is found and `<tool> info` exits 0, exits
\* non-zero, raises TimeoutExpired, raises FileNotFoundError, or raises any
\* other exception ("oserror": PermissionError, CalledProcessError, ...).
ProbeOutcomes == {"missing", "exit0", "nonzero", "timeout", "notfound", "oserror"}

\* The host inputs of one SandboxCapabilities construction
Hosts ==
    [firejail : BOOLEAN,        \* shutil.which("firejail") is not None
     bwrap    : BOOLEAN,        \* shutil.which("bwrap") is not None
     docker   : ProbeOutcomes,
     podman   : ProbeOutcomes]

\* The probe inputs once the constructor has returned: no longer observed
NoHost == [firejail |-> FALSE, bwrap |-> FALSE, docker |-> "missing", podman |-> "missing"]

\* available_backends before _detect_backends has run
NoCaps == [b \in SandboxBackend |-> FALSE]

\* sandboxed_download's fallback_order list
FallbackOrder == <<FIREJAIL, BUBBLEWRAP, PODMAN, DOCKER>>

\* SandboxConfig values the engine reads (config.sandbox): the dataclass
\* defaults, the values the unit tests set, and a slow-link profile whose
\* isolation_level string is no value of IsolationLevel
Configs ==
    {[max_memory_mb |-> 512, max_file_size |-> 104857600, download_timeout |-> 30,
      isolation_level |-> "strict"],
     [max_memory_mb |-> 256, max_file_size |-> 1024, download_timeout |-> 5,
      isolation_level |-> "basic"],
     [max_memory_mb |-> 64, max_file_size |-> 7, download_timeout |-> 300,
      isolation_level |-> "maximum"]}

\* config before SandboxedDownloader.__init__ has stored it
NoConfig == [max_memory_mb |-> 0, max_file_size |-> 0, download_timeout |-> 0,
             isolation_level |-> ""]

\* The report before get_security_report has been called
NoReport ==
    [platform |-> "", available_backends |-> [b \in SandboxBackend |-> FALSE],
     recommended_backend |-> "", max_isolation_level |-> "",
     current_backend |-> "", current_isolation_level |-> ""]

\* config.sandbox.sandbox_backend strings: the enum values and one that is
\* no member of SandboxBackend
BackendStrings == SandboxBackend \cup {"subprocess"}

\* The url argument of sandboxed_download
Urls == {"https://example.com/test.pdf"}

\* Output paths: the one a caller passes, the one NamedTemporaryFile allocates
GivenPath == "/home/user/out/test.pdf"
TempPath == "/tmp/pdf-sandbox/tmpk3x9.tmp"
\* The path tempfile.mkstemp(suffix=".py") gives the generated fetch script
ScriptPath == "/tmp/tmpq7w2.py"

\* ret before any invoker has been called
NoRet == [b \in Backends |-> "notcalled"]

\* Number of sandboxed_download calls made on one downloader
MaxCalls == 2

VARIABLES
    pc,                  \* control position of the program
    platform,            \* SandboxCapabilities.platform
    host,                \* what the probes of the construction in progress meet
    available_backends,  \* SandboxCapabilities.available_backends
    recommended_backend, \* SandboxCapabilities.recommended_backend
    error,               \* the exception the constructor raised, "none" if none
    backend,             \* SandboxedDownloader.backend (resolved)
    config,              \* SandboxedDownloader.config.sandbox
    isolation_level,     \* SandboxedDownloader.isolation_level ("none" before construction)
    report,              \* the dict returned by the get_security_report() call just made
    queried,             \* value returned by the get_max_isolation_level() call just made
    calls,               \* sandboxed_download calls started so far
    output_path,         \* sandboxed_download's output_path ("none" outside a call)
    out_file,            \* what lies at output_path: "absent", the empty "placeholder" of
                         \* NamedTemporaryFile, an "old" file from before the call, the
                         \* "partial" output of a failed fetch, the complete "doc"
    fetch_ok,            \* per backend: would the fetch inside it exit 0 with the file written
    trace,               \* invokers called by the current call, in call order
    ret,                 \* per backend: what its invoker returned in the current call
    idx,                 \* position in fallback_order (0 during the first attempt)
    cur,                 \* the invoker in progress ("none" if none)
    script_exists,       \* the generated fetch script of the invoker in progress is on disk
    stray_script,        \* a generated fetch script outlived its invoker
    cmd,                 \* argument list given to subprocess.run by the invoker in progress
    exit_status,         \* how subprocess.run of the invoker just finished ended ("none" if none)
    raised_by,           \* the statement whose exception left the current call ("none" if none)
    result,              \* outcome of sandboxed_download: "none", "path", "None", "raised"
    fetch_pc,            \* position of the fetch program run inside the sandbox ("off" if none)
    fetch_backend,       \* the backend whose fetch program runs
    fetch_url,           \* the url the fetch program was generated for
    allowed_domains,     \* config.sandbox.allowed_domains (<<>> for None or an empty list)
    max_size,            \* config.sandbox.max_file_size as formatted into the fetch program
    response,            \* what the server answers: declared length, body size
    accessed,            \* the fetch program has attempted a network or resource access
    downloaded,          \* bytes the fetch program has received so far
    output_written,      \* the fetch program has opened the output file for writing
    written,             \* bytes the fetch program wrote to the output file
    temp_dir,            \* the files of config.sandbox.temp_dir, by name: kind and the call holding it
    conc_pc,             \* per concurrent downloader: position of its sandboxed_download call
    conc_output_path,    \* per concurrent downloader: the name its call allocated (0 if none)
    conc_result          \* per concurrent downloader: what its call returned ("none" if nothing yet)

caps_vars == <<platform, host, available_backends, recommended_backend, error>>
dl_vars == <<backend, config, isolation_level>>
call_vars == <<calls, output_path, out_file, fetch_ok, trace, ret, idx, cur,
               script_exists, stray_script, cmd, exit_status, raised_by, result>>
main_vars == <<pc, caps_vars, dl_vars, queried, report, report, call_vars>>
fetch_vars == <<fetch_pc, fetch_backend, fetch_url, allowed_domains, max_size, response,
                accessed, downloaded, output_written, written>>
conc_vars == <<temp_dir, conc_pc, conc_output_path, conc_result>>
vars == <<main_vars, fetch_vars, conc_vars>>

\* Number of downloader instances used concurrently
NumCallers == 2

\* Number of file names NamedTemporaryFile draws from
NumTempNames == 3

\* The concurrent downloaders
Callers == 1..NumCallers

\* The names a file of temp_dir can have
TempNames == 1..NumTempNames

\* No file under a name of temp_dir
NoFile == [kind |-> "absent", by |-> 0]

\* The state of the concurrency variables in Spec and FetchSpec
ConcOff ==
    /\ temp_dir = [n \in TempNames |-> NoFile]
    /\ conc_pc = [c \in Callers |-> "off"]
    /\ conc_output_path = [c \in Callers |-> 0]
    /\ conc_result = [c \in Callers |-> "none"]

(***************************************************************************)
(* Capability Prober: SandboxCapabilities._detect_backends                 *)
(***************************************************************************)

\* _check_docker_available / _check_podman_available: the value returned, or
\* "raise" when the exception is not one of the two the except clause names
CheckContainerAvailable(outcome) ==
    CASE outcome = "missing"  -> "false"
      [] outcome = "exit0"    -> "true"
      [] outcome = "nonzero"  -> "false"
      [] outcome = "timeout"  -> "false"
      [] outcome = "notfound" -> "false"
      [] OTHER                -> "raise"

\* Mutant of DetectBackends: firejail and bwrap are looked up on every platform
DetectBackends_NoPlatformCheck(plat, h) ==
    LET docker == CheckContainerAvailable(h.docker)
        podman == CheckContainerAvailable(h.podman)
    IN  [raised |-> docker = "raise" \/ podman = "raise",
         caps   |-> [b \in SandboxBackend |->
                        CASE b = AUTO       -> TRUE
                          [] b = FIREJAIL   -> h.firejail
                          [] b = BUBBLEWRAP -> h.bwrap
                          [] b = DOCKER     -> docker = "true"
                          [] b = PODMAN     -> podman = "true"]]

\* _detect_backends: whether it raised, and the map it built
DetectBackends(plat, h) ==
    LET docker == CheckContainerAvailable(h.docker)
        podman == CheckContainerAvailable(h.podman)
    IN  [raised |-> docker = "raise" \/ podman = "raise",
         caps   |-> [b \in SandboxBackend |->
                        CASE b = AUTO       -> TRUE
                          [] b = FIREJAIL   -> IF plat = "linux" THEN h.firejail ELSE FALSE
                          [] b = BUBBLEWRAP -> IF plat = "linux" THEN h.bwrap ELSE FALSE
                          [] b = DOCKER     -> docker = "true"
                          [] b = PODMAN     -> podman = "true"]]

(***************************************************************************)
(* Backend Ranker: SandboxCapabilities._get_recommended_backend            *)
(***************************************************************************)

\* Mutant of GetRecommendedBackend: falls back to DOCKER instead of raising
GetRecommendedBackend_DefaultDocker(plat, caps) ==
    IF caps[FIREJAIL] THEN FIREJAIL
    ELSE IF caps[BUBBLEWRAP] THEN BUBBLEWRAP
    ELSE IF plat = "linux" /\ caps[PODMAN] THEN PODMAN
    ELSE DOCKER

\* Mutant of GetRecommendedBackend: Docker tested before Podman
GetRecommendedBackend_DockerFirst(plat, caps) ==
    IF caps[FIREJAIL] THEN FIREJAIL
    ELSE IF caps[BUBBLEWRAP] THEN BUBBLEWRAP
    ELSE IF caps[DOCKER] THEN DOCKER
    ELSE IF plat = "linux" /\ caps[PODMAN] THEN PODMAN
    ELSE "raise"

\* The recommended backend, or "raise" for the RuntimeError
\* "No suitable sandboxing backend available"
GetRecommendedBackend(plat, caps) ==
    IF caps[FIREJAIL] THEN FIREJAIL
    ELSE IF caps[BUBBLEWRAP] THEN BUBBLEWRAP
    ELSE IF plat = "linux" /\ caps[PODMAN] THEN PODMAN
    ELSE IF caps[DOCKER] THEN DOCKER
    ELSE "raise"

\* Mutant of GetMaxIsolationLevel: Bubblewrap forgotten in the first test
GetMaxIsolationLevel_FirejailOnly(caps) ==
    IF caps[FIREJAIL] THEN PARANOID
    ELSE IF caps[DOCKER] \/ caps[PODMAN] THEN STRICT
    ELSE BASIC

\* Mutant of GetMaxIsolationLevel: the container runtimes are tested first
GetMaxIsolationLevel_ContainersFirst(caps) ==
    IF caps[DOCKER] \/ caps[PODMAN] THEN STRICT
    ELSE IF caps[FIREJAIL] \/ caps[BUBBLEWRAP] THEN PARANOID
    ELSE BASIC

\* SandboxCapabilities.get_max_isolation_level
GetMaxIsolationLevel(caps) ==
    IF caps[FIREJAIL] \/ caps[BUBBLEWRAP] THEN PARANOID
    ELSE IF caps[DOCKER] \/ caps[PODMAN] THEN STRICT
    ELSE BASIC

(***************************************************************************)
(* Strings: str(int) in f-strings, Path.parent, Path.name                  *)
(***************************************************************************)

\* The decimal digit d as a one-character string
DigitChar(d) == SubSeq("0123456789", d + 1, d + 1)

\* str(n) for an int n, as f"{n}" formats it
RECURSIVE IntToStr(_)
IntToStr(n) ==
    IF n < 0 THEN "-" \o IntToStr(-n)
    ELSE IF n < 10 THEN DigitChar(n)
    ELSE IntToStr(n \div 10) \o DigitChar(n % 10)

\* Position of the last "/" of path string p at or before position i (0 if none)
RECURSIVE LastSlash(_, _)
LastSlash(p, i) ==
    IF i = 0 THEN 0
    ELSE IF SubSeq(p, i, i) = "/" THEN i
    ELSE LastSlash(p, i - 1)

\* str(Path(p).parent) for an absolute path below the root
PathParent(p) == SubSeq(p, 1, LastSlash(p, Len(p)) - 1)

\* Path(p).name
PathName(p) == SubSeq(p, LastSlash(p, Len(p)) + 1, Len(p))

(***************************************************************************)
(* Isolated Execution Invoker: the argument lists                          *)
(***************************************************************************)

\* Mutant of FirejailCmd: the seccomp filter is left out
FirejailCmd_NoSeccomp(cfg, script_path) ==
    <<"firejail", "--noprofile", "--net=none", "--noroot",
      "--private-tmp", "--private-dev",
      "--rlimit-fsize=" \o IntToStr(cfg.max_file_size),
      "--rlimit-nofile=64", "--rlimit-nproc=10", "--timeout=120",
      "python3", script_path>>

\* run_firejail_download: cmd
FirejailCmd(cfg, script_path) ==
    <<"firejail", "--noprofile", "--net=none", "--seccomp", "--noroot",
      "--private-tmp", "--private-dev",
      "--rlimit-fsize=" \o IntToStr(cfg.max_file_size),
      "--rlimit-nofile=64", "--rlimit-nproc=10", "--timeout=120",
      "python3", script_path>>

\* run_bubblewrap_download: cmd
BubblewrapCmd(script_path, out_path) ==
    <<"bwrap", "--new-session", "--die-with-parent", "--unshare-pid",
      "--unshare-net", "--tmpfs", "/tmp", "--proc", "/proc",
      "--bind", "/usr", "/usr", "--bind", "/bin", "/bin",
      "--bind", "/lib", "/lib", "--bind", "/lib64", "/lib64",
      "--ro-bind", script_path, "/tmp/download_script.py",
      "--bind", PathParent(out_path), "/output",
      "python3", "/tmp/download_script.py">>

\* run_docker_download / run_podman_download: download_cmd, the inline fetch
\* program with the call's values interpolated
DownloadCmd(cfg, url, out_path) ==
    "python3 -c url='" \o url \o "' output_path='/output/" \o PathName(out_path)
        \o "' max_size=" \o IntToStr(cfg.max_file_size)
        \o " timeout=" \o IntToStr(cfg.download_timeout)

\* Mutant of DockerCmd: the memory limit without its unit suffix
DockerCmd_NoMemUnit(cfg, url, out_path) ==
    <<"docker", "run", "--rm", "--network", "bridge",
      "--memory", IntToStr(cfg.max_memory_mb),
      "--cpu-shares", "512",
      "--security-opt", "no-new-privileges:true",
      "--read-only", "--tmpfs", "/tmp:noexec,nosuid,size=100m",
      "--volume", PathParent(out_path) \o ":/output:rw",
      "python:3.11-slim", "sh", "-c", DownloadCmd(cfg, url, out_path)>>

\* run_docker_download: cmd
DockerCmd(cfg, url, out_path) ==
    <<"docker", "run", "--rm", "--network", "bridge",
      "--memory", IntToStr(cfg.max_memory_mb) \o "m",
      "--cpu-shares", "512",
      "--security-opt", "no-new-privileges:true",
      "--read-only", "--tmpfs", "/tmp:noexec,nosuid,size=100m",
      "--volume", PathParent(out_path) \o ":/output:rw",
      "python:3.11-slim", "sh", "-c", DownloadCmd(cfg, url, out_path)>>

\* run_podman_download: cmd
PodmanCmd(cfg, url, out_path) ==
    <<"podman", "run", "--rm", "--network", "bridge",
      "--memory", IntToStr(cfg.max_memory_mb) \o "m",
      "--cpus", "0.5",
      "--security-opt", "no-new-privileges:true",
      "--read-only", "--tmpfs", "/tmp:noexec,nosuid,size=100m",
      "--volume", PathParent(out_path) \o ":/output:rw",
      "python:3.11-slim", "sh", "-c", DownloadCmd(cfg, url, out_path)>>

\* The timeout= argument the invoker of backend b gives subprocess.run
\* (lines 306, 361, 443, 523), in seconds
SubprocessTimeout(b) ==
    CASE b = FIREJAIL   -> 150
      [] b = BUBBLEWRAP -> 120
      [] b = PODMAN     -> 150
      [] b = DOCKER     -> 150

\* create_download_script, line 267: the path the generated script writes
\* its output to, the f-string's "{output_path}"
ScriptOutputPath(out_path) == out_path

\* The argument list the invoker of backend b builds
InvokerCmd(b, cfg, url, out_path) ==
    CASE b = FIREJAIL   -> FirejailCmd(cfg, ScriptPath)
      [] b = BUBBLEWRAP -> BubblewrapCmd(ScriptPath, out_path)
      [] b = PODMAN     -> PodmanCmd(cfg, url, out_path)
      [] b = DOCKER     -> DockerCmd(cfg, url, out_path)

\* The invokers that write a generated fetch script (create_download_script)
ScriptBackends == {FIREJAIL, BUBBLEWRAP}

(***************************************************************************)
(* Construction steps                                                      *)
(***************************************************************************)

Init ==
    /\ pc = "start"
    /\ platform \in Platforms
    /\ host \in Hosts
    /\ available_backends = NoCaps
    /\ recommended_backend = "none"
    /\ error = "none"
    /\ backend = "none"
    /\ config = NoConfig
    /\ isolation_level = "none"
    /\ queried = "none"
    /\ report = NoReport
    /\ calls = 0
    /\ output_path = "none"
    /\ out_file = "absent"
    /\ fetch_ok = [b \in Backends |-> FALSE]
    /\ trace = <<>>
    /\ ret = NoRet
    /\ idx = 0
    /\ cur = "none"
    /\ script_exists = FALSE
    /\ stray_script = FALSE
    /\ cmd = <<>>
    /\ exit_status = "none"
    /\ raised_by = "none"
    /\ result = "none"
    /\ fetch_pc = "off"
    /\ fetch_backend = "none"
    /\ fetch_url = ""
    /\ allowed_domains = <<>>
    /\ max_size = 0
    /\ response = [serves |-> FALSE, has_length |-> FALSE, length |-> 0, body |-> 0]
    /\ accessed = FALSE
    /\ downloaded = 0
    /\ output_written = FALSE
    /\ written = 0
    /\ ConcOff

\* SandboxCapabilities.__init__, line 41: self.available_backends = self._detect_backends()
DetectStep ==
    /\ pc = "start"
    /\ LET d == DetectBackends(platform, host)
       IN  IF d.raised
           THEN /\ pc' = "init_raised"
                /\ error' = "probe_error"
                /\ UNCHANGED available_backends
           ELSE /\ pc' = "detected"
                /\ available_backends' = d.caps
                /\ UNCHANGED error
    /\ UNCHANGED <<conc_vars, fetch_vars, platform, host, recommended_backend, dl_vars, queried, report, call_vars>>

\* SandboxCapabilities.__init__, line 42: self.recommended_backend = self._get_recommended_backend()
RankStep ==
    /\ pc = "detected"
    /\ LET r == GetRecommendedBackend(platform, available_backends)
       IN  IF r = "raise"
           THEN /\ pc' = "init_raised"
                /\ error' = "no_backend"
                /\ UNCHANGED recommended_backend
           ELSE /\ pc' = "ranked"
                /\ recommended_backend' = r
                /\ UNCHANGED error
    /\ UNCHANGED <<conc_vars, fetch_vars, platform, host, available_backends, dl_vars, queried, report, call_vars>>

\* SandboxedDownloader.__init__ lines 142-153: the backend the configured
\* string resolves to
ResolveBackend(backend_str, recommended) ==
    LET parsed == IF backend_str \in SandboxBackend THEN backend_str ELSE AUTO
    IN  IF parsed = AUTO THEN recommended ELSE parsed

\* SandboxedDownloader.__init__ lines 135-140: the IsolationLevel member whose
\* value is the configured string, PARANOID if there is none
ResolveIsolationLevel(isolation_str) ==
    IF isolation_str \in IsolationLevel THEN isolation_str ELSE PARANOID

\* SandboxedDownloader.__init__ after self.capabilities = SandboxCapabilities()
DownloaderInit ==
    /\ pc = "ranked"
    /\ \E cfg \in Configs, backend_str \in BackendStrings :
          /\ config' = cfg
          /\ isolation_level' = ResolveIsolationLevel(cfg.isolation_level)
          /\ backend' = ResolveBackend(backend_str, recommended_backend)
    /\ pc' = "idle"
    /\ host' = NoHost
    /\ queried' = "none"
    /\ report' = NoReport
    /\ UNCHANGED <<conc_vars, fetch_vars, platform, available_backends, recommended_backend, error, call_vars>>

\* Mutant of SecurityReport: the recommended backend is reported as current
SecurityReport_RecommendedAsCurrent ==
    [platform |-> platform,
     available_backends |-> available_backends,
     recommended_backend |-> recommended_backend,
     max_isolation_level |-> GetMaxIsolationLevel(available_backends),
     current_backend |-> recommended_backend,
     current_isolation_level |-> isolation_level]

\* Lines 611-625: the dict get_security_report builds (each enum member
\* stands for its .value)
SecurityReport ==
    [platform |-> platform,
     available_backends |-> available_backends,
     recommended_backend |-> recommended_backend,
     max_isolation_level |-> GetMaxIsolationLevel(available_backends),
     current_backend |-> backend,
     current_isolation_level |-> isolation_level]

\* A caller invokes downloader.get_security_report(), between calls of
\* sandboxed_download
GetSecurityReport ==
    /\ pc \in {"idle", "done"}
    /\ report = NoReport
    /\ report' = SecurityReport
    /\ UNCHANGED <<conc_vars, fetch_vars, pc, caps_vars, dl_vars, queried, call_vars>>

\* A caller invokes capabilities.get_max_isolation_level()
QueryMaxIsolationLevel ==
    /\ pc \in {"ranked", "idle"}
    /\ queried = "none"
    /\ queried' = GetMaxIsolationLevel(available_backends)
    /\ UNCHANGED <<conc_vars, fetch_vars, pc, caps_vars, dl_vars, report, call_vars>>

(***************************************************************************)
(* Sandboxed Download Orchestrator: sandboxed_download                     *)
(***************************************************************************)

\* The call's output path as a path string
OutputPathStr == IF output_path = "given" THEN GivenPath ELSE TempPath

\* Lines 543-549: a call begins and prepares its output path.  A path the
\* caller passes may or may not hold a file already; without one,
\* NamedTemporaryFile(delete=False) creates an empty file in temp_dir.
SandboxedDownloadBegin ==
    /\ pc \in {"idle", "done"}
    /\ calls < MaxCalls
    /\ calls' = calls + 1
    /\ \/ /\ output_path' = "given"
          /\ out_file' \in {"absent", "old"}
       \/ /\ output_path' = "temp"
          /\ out_file' = "placeholder"
    /\ fetch_ok' \in {f \in [Backends -> BOOLEAN] :
                        \A b \in Backends : f[b] => available_backends[b]}
    /\ trace' = <<>>
    /\ ret' = NoRet
    /\ idx' = 0
    /\ cur' = "none"
    /\ cmd' = <<>>
    /\ exit_status' = "none"
    /\ raised_by' = "none"
    /\ result' = "none"
    /\ pc' = "first"
    /\ queried' = "none"
    /\ report' = NoReport
    /\ UNCHANGED <<conc_vars, fetch_vars, caps_vars, dl_vars, script_exists, stray_script>>

\* Lines 551-578: the if/elif chain on self.backend: call the resolved
\* backend's invoker if Capabilities marks it available
TrySelectedBackend ==
    /\ pc = "first"
    /\ IF backend \in Backends /\ available_backends[backend]
       THEN /\ cur' = backend
            /\ pc' = "invoke"
            /\ UNCHANGED idx
       ELSE /\ idx' = 1
            /\ pc' = "fallback"
            /\ UNCHANGED cur
    /\ UNCHANGED <<conc_vars, fetch_vars, caps_vars, dl_vars, queried, report, calls, output_path, out_file, fetch_ok,
                   trace, ret, script_exists, stray_script, cmd, exit_status, raised_by,
                   result>>

\* Mutant of FallbackEligible: the loop stops one entry short
FallbackEligible_StopsShort(i) ==
    /\ i < Len(FallbackOrder)
    /\ FallbackOrder[i] # backend
    /\ available_backends[FallbackOrder[i]]

\* Mutant of FallbackEligible: availability is not consulted
FallbackEligible_NoAvailabilityCheck(i) ==
    FallbackOrder[i] # backend

\* Mutant of FallbackEligible: the backend already tried is not skipped
FallbackEligible_NoSkipTried(i) ==
    available_backends[FallbackOrder[i]]

\* Lines 588-604, one iteration of the for loop: whether fallback_order[i]
\* is to be invoked
FallbackEligible(i) ==
    /\ FallbackOrder[i] # backend
    /\ available_backends[FallbackOrder[i]]

\* Lines 588-604: one iteration of the fallback loop, up to the invoker call
FallbackStep ==
    /\ pc = "fallback"
    /\ idx <= Len(FallbackOrder)
    /\ IF FallbackEligible(idx)
       THEN /\ cur' = FallbackOrder[idx]
            /\ pc' = "invoke"
            /\ UNCHANGED idx
       ELSE /\ idx' = idx + 1
            /\ UNCHANGED <<cur, pc>>
    /\ UNCHANGED <<conc_vars, fetch_vars, caps_vars, dl_vars, queried, report, calls, output_path, out_file, fetch_ok,
                   trace, ret, script_exists, stray_script, cmd, exit_status, raised_by,
                   result>>

\* Mutant of AllMethodsFailed: returns None without deleting the output file
AllMethodsFailed_NoUnlink ==
    /\ pc = "fallback"
    /\ idx > Len(FallbackOrder)
    /\ result' = "None"
    /\ pc' = "done"
    /\ UNCHANGED <<conc_vars, fetch_vars, caps_vars, dl_vars, queried, report, calls, output_path, out_file, fetch_ok,
                   trace, ret, idx, cur, script_exists, stray_script, cmd, exit_status,
                   raised_by>>

\* Lines 606-609: every attempt failed; delete the output file if it exists
\* and return None.  Path.unlink may raise (OSError), which nothing catches.
AllMethodsFailed ==
    /\ pc = "fallback"
    /\ idx > Len(FallbackOrder)
    /\ IF out_file # "absent"
       THEN \/ /\ out_file' = "absent"
               /\ result' = "None"
               /\ UNCHANGED raised_by
            \/ /\ result' = "raised"
               /\ raised_by' = "output_unlink"
               /\ UNCHANGED out_file
       ELSE /\ result' = "None"
            /\ UNCHANGED <<out_file, raised_by>>
    /\ pc' = "done"
    /\ UNCHANGED <<conc_vars, fetch_vars, caps_vars, dl_vars, queried, report, calls, output_path, fetch_ok,
                   trace, ret, idx, cur, script_exists, stray_script, cmd, exit_status>>

(***************************************************************************)
(* Isolated Execution Invoker: run_<backend>_download                      *)
(***************************************************************************)

\* The invoker of cur begins: run_firejail_download and
\* run_bubblewrap_download first call create_download_script, outside their
\* try block (lines 283, 326); tempfile.mkstemp may raise (no file is made),
\* and so may writing the script (lines 272-277: the file mkstemp made stays
\* on disk); then the argument list is built and subprocess.run starts the
\* process.
InvokerStart ==
    /\ pc = "invoke"
    /\ trace' = Append(trace, cur)
    /\ \/ /\ cmd' = InvokerCmd(cur, config, CHOOSE u \in Urls : TRUE, OutputPathStr)
          /\ script_exists' = (cur \in ScriptBackends)
          /\ ret' = [ret EXCEPT ![cur] = "running"]
          /\ pc' = "running"
          /\ UNCHANGED <<result, cur, stray_script, raised_by>>
       \/ /\ cur \in ScriptBackends
          /\ \E half_written \in BOOLEAN : stray_script' = (stray_script \/ half_written)
          /\ ret' = [ret EXCEPT ![cur] = "raised"]
          /\ raised_by' = "script_create"
          /\ result' = "raised"
          /\ pc' = "done"
          /\ cur' = "none"
          /\ UNCHANGED <<cmd, script_exists>>
    /\ UNCHANGED <<conc_vars, fetch_vars, caps_vars, dl_vars, queried, report, calls, output_path, out_file, fetch_ok,
                   idx, exit_status>>

\* What the sandboxed process may do, given whether its fetch works: the
\* exit ("exit0", "nonzero", "timeout" for TimeoutExpired, "oserror" for any
\* other exception of subprocess.run) and what it leaves at the output path
ProcessOutcomes(ok) ==
    IF ok
    THEN {[exit |-> "exit0", wrote |-> "doc"]}
    ELSE {[exit |-> "exit0", wrote |-> "nothing"],
          [exit |-> "nonzero", wrote |-> "nothing"],
          [exit |-> "nonzero", wrote |-> "partial"],
          [exit |-> "timeout", wrote |-> "nothing"],
          [exit |-> "timeout", wrote |-> "partial"],
          [exit |-> "oserror", wrote |-> "nothing"]}

\* The output file after the process has run
FileAfter(before, wrote) == IF wrote = "nothing" THEN before ELSE wrote

\* Mutant of InvokerVerdict: the exit status alone decides
InvokerVerdict_ExitOnly(exit, file) ==
    IF exit = "exit0" THEN "true" ELSE "false"

\* Lines 309-320 (445-456, 525-536): the value the try block yields:
\* True only for exit status 0 with output_path.exists()
InvokerVerdict(exit, file) ==
    IF exit = "exit0" /\ file # "absent" THEN "true" ELSE "false"

\* Mutant of InvokerFinish: no finally clause, the script is left on disk
InvokerFinish_NoUnlink ==
    /\ pc = "running"
    /\ \E o \in ProcessOutcomes(fetch_ok[cur]) :
          /\ out_file' = FileAfter(out_file, o.wrote)
          /\ exit_status' = o.exit
          /\ ret' = [ret EXCEPT ![cur] = InvokerVerdict(o.exit, out_file')]
    /\ cmd' = <<>>
    /\ pc' = "returned"
    /\ UNCHANGED <<conc_vars, fetch_vars, caps_vars, dl_vars, queried, report, calls, output_path, fetch_ok,
                   trace, idx, cur, result, script_exists, stray_script, raised_by>>

\* The invoker of cur ends: the process finishes, the verdict is computed,
\* and the finally clause of the script invokers unlinks the script
\* (lines 321-322, 375-376); that unlink may raise, and then the invoker
\* raises instead of returning.
InvokerFinish ==
    /\ pc = "running"
    /\ \E o \in ProcessOutcomes(fetch_ok[cur]), unlink_raises \in BOOLEAN :
          /\ unlink_raises => cur \in ScriptBackends
          /\ out_file' = FileAfter(out_file, o.wrote)
          /\ script_exists' = FALSE
          /\ stray_script' = (stray_script \/ unlink_raises)
          /\ exit_status' = o.exit
          /\ raised_by' = IF unlink_raises THEN "script_unlink" ELSE raised_by
          /\ ret' = [ret EXCEPT ![cur] =
                        IF unlink_raises THEN "raised"
                        ELSE InvokerVerdict(o.exit, out_file')]
    /\ cmd' = <<>>
    /\ pc' = "returned"
    /\ UNCHANGED <<conc_vars, fetch_vars, caps_vars, dl_vars, queried, report, calls, output_path, fetch_ok,
                   trace, idx, cur, result>>

\* Mutant of AfterInvoker: the first attempt's success does not return
AfterInvoker_NoEarlyReturn ==
    /\ pc = "returned"
    /\ cur' = "none"
    /\ exit_status' = "none"
    /\ CASE ret[cur] = "true" /\ idx > 0 ->
              /\ result' = "path"
              /\ pc' = "done"
              /\ UNCHANGED idx
         [] ret[cur] = "raised" ->
              /\ result' = "raised"
              /\ pc' = "done"
              /\ UNCHANGED idx
         [] OTHER ->
              /\ idx' = idx + 1
              /\ pc' = "fallback"
              /\ UNCHANGED result
    /\ UNCHANGED <<conc_vars, fetch_vars, caps_vars, dl_vars, queried, report, calls, output_path, out_file, fetch_ok,
                   trace, ret, script_exists, stray_script, cmd, raised_by>>

\* Back in sandboxed_download: `if self.run_..._download(...): return
\* output_path`; an exception of the invoker propagates; otherwise the
\* fallback loop goes on (starts, after the first attempt)
AfterInvoker ==
    /\ pc = "returned"
    /\ cur' = "none"
    /\ exit_status' = "none"
    /\ CASE ret[cur] = "true" ->
              /\ result' = "path"
              /\ pc' = "done"
              /\ UNCHANGED idx
         [] ret[cur] = "raised" ->
              /\ result' = "raised"
              /\ pc' = "done"
              /\ UNCHANGED idx
         [] OTHER ->
              /\ idx' = idx + 1
              /\ pc' = "fallback"
              /\ UNCHANGED result
    /\ UNCHANGED <<conc_vars, fetch_vars, caps_vars, dl_vars, queried, report, calls, output_path, out_file, fetch_ok,
                   trace, ret, script_exists, stray_script, cmd, raised_by>>

Next ==
    \/ DetectStep
    \/ RankStep
    \/ DownloaderInit
    \/ QueryMaxIsolationLevel
    \/ GetSecurityReport
    \/ SandboxedDownloadBegin
    \/ TrySelectedBackend
    \/ FallbackStep
    \/ AllMethodsFailed
    \/ InvokerStart
    \/ InvokerFinish
    \/ AfterInvoker

Spec == Init /\ [][Next]_vars

(***************************************************************************)
(* The fetch programs run inside the sandbox: the script written by        *)
(* create_download_script (Firejail, Bubblewrap) and the inline program of *)
(* run_docker_download / run_podman_download                               *)
(***************************************************************************)

\* The urls a fetch program is generated for
FetchUrls ==
    {"https://example.com/test.pdf",
     "http://example.com/test.pdf",
     "https://EXAMPLE.com/test.pdf",
     "HTTPS://example.com/test.pdf",
     "https://evil.org/test.pdf",
     "ftp://example.com/test.pdf",
     "file:///etc/passwd",
     "example.com/test.pdf"}

\* Values of config.sandbox.allowed_domains (None and [] are both falsy)
AllowedDomainLists ==
    {<<>>, <<"example.com">>, <<"docs.example.org", "Example.com">>}

\* Values of config.sandbox.max_file_size
MaxFileSizes == {7, 1024, 20000}

\* iter_content(chunk_size=8192)
ChunkSize == 8192

\* What the server (or the resource) answers: whether it serves the
\* request at all, the content length it declares (has_length FALSE: none
\* declared) and the number of bytes its body delivers
Responses(max) ==
    {[serves |-> FALSE, has_length |-> FALSE, length |-> 0, body |-> 0]}
    \cup [serves : {TRUE}, has_length : {FALSE}, length : {0},
          body : {0, max - 1, max, max + 1, max + ChunkSize + 1}]
    \cup [serves : {TRUE}, has_length : {TRUE}, length : {0, max, max + 1},
          body : {0, max - 1, max, max + 1, max + ChunkSize + 1}]

\* str.lower() of a one-character string
LowerChar(c) ==
    LET upper == "ABCDEFGHIJKLMNOPQRSTUVWXYZ"
        lower == "abcdefghijklmnopqrstuvwxyz"
    IN  IF \E i \in 1..26 : SubSeq(upper, i, i) = c
        THEN LET i == CHOOSE i \in 1..26 : SubSeq(upper, i, i) = c
             IN  SubSeq(lower, i, i)
        ELSE c

\* str.lower()
RECURSIVE ToLower(_)
ToLower(str) ==
    IF Len(str) = 0 THEN ""
    ELSE ToLower(SubSeq(str, 1, Len(str) - 1)) \o LowerChar(SubSeq(str, Len(str), Len(str)))

\* str.endswith(suffix)
EndsWith(str, suffix) ==
    /\ Len(suffix) <= Len(str)
    /\ SubSeq(str, Len(str) - Len(suffix) + 1, Len(str)) = suffix

\* str.find(sub) for a one-character sub, from position i on (1-based; 0 if none)
RECURSIVE FindChar(_, _, _)
FindChar(str, chars, i) ==
    IF i > Len(str) THEN 0
    ELSE IF SubSeq(str, i, i) \in chars THEN i
    ELSE FindChar(str, chars, i + 1)

\* The characters urlsplit allows in a scheme
SchemeChars ==
    {SubSeq("abcdefghijklmnopqrstuvwxyzABCDEFGHIJKLMNOPQRSTUVWXYZ0123456789+-.", i, i) :
        i \in 1..65}

\* Position of the ":" that ends the scheme of u (0 if u has no scheme)
SchemeEnd(u) ==
    LET i == FindChar(u, {":"}, 1)
    IN  IF i > 1 /\ \A k \in 1..(i - 1) : SubSeq(u, k, k) \in SchemeChars
        THEN i ELSE 0

\* urllib.parse.urlparse(u).scheme: the part before the first ":", lowercased
UrlScheme(u) ==
    IF SchemeEnd(u) = 0 THEN "" ELSE ToLower(SubSeq(u, 1, SchemeEnd(u) - 1))

\* urllib.parse.urlparse(u).netloc: what follows "//" up to the next "/",
\* "?" or "#", in the letter case it was written in
UrlNetloc(u) ==
    LET rest == SubSeq(u, SchemeEnd(u) + 1, Len(u))
    IN  IF Len(rest) >= 2 /\ SubSeq(rest, 1, 2) = "//"
        THEN LET e == FindChar(rest, {"/", "?", "#"}, 3)
             IN  SubSeq(rest, 3, IF e = 0 THEN Len(rest) ELSE e - 1)
        ELSE ""

\* Lines 188-200, validate_url of the generated script
ValidateUrl(u, domains) ==
    IF UrlScheme(u) = "" \/ UrlNetloc(u) = "" THEN FALSE
    ELSE IF UrlScheme(u) \notin {"http", "https"} THEN FALSE
    ELSE IF domains # <<>>
            /\ ~ \E i \in DOMAIN domains : EndsWith(UrlNetloc(u), domains[i])
         THEN FALSE
    ELSE TRUE

\* The url schemes urllib.request.urlopen (line 400) has a handler for; for
\* any other, and for a url without scheme, it raises before opening anything
UrlOpenSchemes == {"http", "https", "ftp", "file", "data"}

\* Mutant of ExceedsLimit: a size equal to the limit is refused too
ExceedsLimit_Inclusive(size, limit) == size >= limit

\* The comparison of lines 209, 220, 401 and 405: size > max_file_size
ExceedsLimit(size, limit) == size > limit

\* A fetch program starts, generated for one url and one configuration
FetchInit ==
    /\ pc = "off"
    /\ platform = "linux"
    /\ host = NoHost
    /\ available_backends = NoCaps
    /\ recommended_backend = "none"
    /\ error = "none"
    /\ backend = "none"
    /\ config = NoConfig
    /\ isolation_level = "none"
    /\ queried = "none"
    /\ report = NoReport
    /\ calls = 0
    /\ output_path = "none"
    /\ out_file = "absent"
    /\ fetch_ok = [b \in Backends |-> FALSE]
    /\ trace = <<>>
    /\ ret = NoRet
    /\ idx = 0
    /\ cur = "none"
    /\ script_exists = FALSE
    /\ stray_script = FALSE
    /\ cmd = <<>>
    /\ exit_status = "none"
    /\ raised_by = "none"
    /\ result = "none"
    /\ fetch_pc = "start"
    /\ fetch_backend \in Backends
    /\ fetch_url \in FetchUrls
    /\ allowed_domains \in AllowedDomainLists
    /\ max_size \in MaxFileSizes
    /\ response \in Responses(max_size)
    /\ accessed = FALSE
    /\ downloaded = 0
    /\ output_written = FALSE
    /\ written = 0
    /\ ConcOff

\* Lines 236-238 of the script: download_document validates the url before
\* anything else; a refused url raises, and the except clause exits with 1
ScriptValidateUrl ==
    /\ fetch_pc = "start"
    /\ fetch_backend \in ScriptBackends
    /\ fetch_pc' = IF ValidateUrl(fetch_url, allowed_domains) THEN "validated" ELSE "exit1"
    /\ UNCHANGED <<conc_vars, main_vars, fetch_backend, fetch_url, allowed_domains, max_size, response,
                   accessed, downloaded, output_written, written>>

\* Lines 204-205: session.get(url, stream=True) and raise_for_status()
ScriptSessionGet ==
    /\ fetch_pc = "validated"
    /\ accessed' = TRUE
    /\ fetch_pc' = IF response.serves THEN "opened" ELSE "exit1"
    /\ UNCHANGED <<conc_vars, main_vars, fetch_backend, fetch_url, allowed_domains, max_size, response,
                   downloaded, output_written, written>>

\* Lines 208-210: the declared content length (0 when none is declared)
\* against max_file_size
ScriptCheckContentLength ==
    /\ fetch_pc = "opened"
    /\ fetch_backend \in ScriptBackends
    /\ LET content_length == IF response.has_length THEN response.length ELSE 0
       IN  fetch_pc' = IF ExceedsLimit(content_length, max_size) THEN "exit1"
                       ELSE "streaming"
    /\ UNCHANGED <<conc_vars, main_vars, fetch_backend, fetch_url, allowed_domains, max_size, response,
                   accessed, downloaded, output_written, written>>

\* Lines 217-222: one chunk of iter_content is received and counted
ScriptReadChunk ==
    /\ fetch_pc = "streaming"
    /\ downloaded < response.body
    /\ LET rest == response.body - downloaded
           chunk == IF rest < ChunkSize THEN rest ELSE ChunkSize
       IN  /\ downloaded' = downloaded + chunk
           /\ fetch_pc' = IF ExceedsLimit(downloaded', max_size) THEN "exit1"
                           ELSE "streaming"
    /\ UNCHANGED <<conc_vars, main_vars, fetch_backend, fetch_url, allowed_domains, max_size, response,
                   accessed, output_written, written>>

\* Lines 228-229, 250-260: the body has ended; the buffer is written to output_path
ScriptSaveBuffer ==
    /\ fetch_pc = "streaming"
    /\ downloaded = response.body
    /\ output_written' = TRUE
    /\ written' = downloaded
    /\ fetch_pc' = "exit0"
    /\ UNCHANGED <<conc_vars, main_vars, fetch_backend, fetch_url, allowed_domains, max_size, response,
                   accessed, downloaded>>

\* Line 400 of the inline program: urllib.request.urlopen(url, timeout=...);
\* no check of the url precedes it
InlineUrlOpen ==
    /\ fetch_pc = "start"
    /\ fetch_backend \in {DOCKER, PODMAN}
    /\ IF UrlScheme(fetch_url) \in UrlOpenSchemes
       THEN /\ accessed' = TRUE
            /\ fetch_pc' = IF response.serves THEN "opened" ELSE "exit1"
       ELSE /\ fetch_pc' = "exit1"
            /\ UNCHANGED accessed
    /\ UNCHANGED <<conc_vars, main_vars, fetch_backend, fetch_url, allowed_domains, max_size, response,
                   downloaded, output_written, written>>

\* Lines 401-402: response.length, where the response has one and it is not
\* zero, against max_size
InlineCheckLength ==
    /\ fetch_pc = "opened"
    /\ fetch_backend \in {DOCKER, PODMAN}
    /\ LET length == IF response.has_length THEN response.length ELSE 0
       IN  fetch_pc' = IF length # 0 /\ ExceedsLimit(length, max_size) THEN "exit1"
                       ELSE "reading"
    /\ UNCHANGED <<conc_vars, main_vars, fetch_backend, fetch_url, allowed_domains, max_size, response,
                   accessed, downloaded, output_written, written>>

\* Lines 404-410: data = response.read(max_size + 1); too long a data
\* raises, otherwise it is written to output_path
InlineReadAndWrite ==
    /\ fetch_pc = "reading"
    /\ LET data == IF response.body < max_size + 1 THEN response.body ELSE max_size + 1
       IN  /\ downloaded' = data
           /\ IF ExceedsLimit(data, max_size)
              THEN /\ fetch_pc' = "exit1"
                   /\ UNCHANGED <<output_written, written>>
              ELSE /\ fetch_pc' = "exit0"
                   /\ output_written' = TRUE
                   /\ written' = data
    /\ UNCHANGED <<conc_vars, main_vars, fetch_backend, fetch_url, allowed_domains, max_size, response,
                   accessed>>

FetchNext ==
    \/ ScriptValidateUrl
    \/ ScriptSessionGet
    \/ ScriptCheckContentLength
    \/ ScriptReadChunk
    \/ ScriptSaveBuffer
    \/ InlineUrlOpen
    \/ InlineCheckLength
    \/ InlineReadAndWrite

FetchSpec == FetchInit /\ [][FetchNext]_vars

(***************************************************************************)
(* Independent SandboxedDownloader instances calling sandboxed_download    *)
(* concurrently, each without an output_path argument, over the one        *)
(* config.sandbox.temp_dir                                                 *)
(***************************************************************************)

\* The main variables while no construction or call of Spec is under study
MainOff ==
    /\ pc = "off"
    /\ platform = "linux"
    /\ host = NoHost
    /\ available_backends = NoCaps
    /\ recommended_backend = "none"
    /\ error = "none"
    /\ backend = "none"
    /\ config = NoConfig
    /\ isolation_level = "none"
    /\ queried = "none"
    /\ report = NoReport
    /\ calls = 0
    /\ output_path = "none"
    /\ out_file = "absent"
    /\ fetch_ok = [b \in Backends |-> FALSE]
    /\ trace = <<>>
    /\ ret = NoRet
    /\ idx = 0
    /\ cur = "none"
    /\ script_exists = FALSE
    /\ stray_script = FALSE
    /\ cmd = <<>>
    /\ exit_status = "none"
    /\ raised_by = "none"
    /\ result = "none"

\* The fetch variables while no fetch program is under study
FetchOff ==
    /\ fetch_pc = "off"
    /\ fetch_backend = "none"
    /\ fetch_url = ""
    /\ allowed_domains = <<>>
    /\ max_size = 0
    /\ response = [serves |-> FALSE, has_length |-> FALSE, length |-> 0, body |-> 0]
    /\ accessed = FALSE
    /\ downloaded = 0
    /\ output_written = FALSE
    /\ written = 0

\* Every downloader is between calls and temp_dir is empty
ConcInit ==
    /\ MainOff
    /\ FetchOff
    /\ temp_dir = [n \in TempNames |-> NoFile]
    /\ conc_pc = [c \in Callers |-> "idle"]
    /\ conc_output_path = [c \in Callers |-> 0]
    /\ conc_result = [c \in Callers |-> "none"]

\* Mutant of FreeNames: the name is picked without exclusive creation
FreeNames_NotExclusive(dir) == TempNames

\* tempfile.NamedTemporaryFile (lines 545-547) opens its file with O_EXCL:
\* the names it can give are those no file of the directory has
FreeNames(dir) == {n \in TempNames : dir[n] = NoFile}

\* Lines 543-549: call c begins; NamedTemporaryFile(dir=temp_dir,
\* delete=False) creates an empty file under a fresh name, kept on close
ConcAllocate(c) ==
    /\ conc_pc[c] = "idle"
    /\ \E n \in FreeNames(temp_dir) :
          /\ temp_dir' = [temp_dir EXCEPT ![n] = [kind |-> "placeholder", by |-> c]]
          /\ conc_output_path' = [conc_output_path EXCEPT ![c] = n]
    /\ conc_pc' = [conc_pc EXCEPT ![c] = "trying"]
    /\ conc_result' = [conc_result EXCEPT ![c] = "none"]
    /\ UNCHANGED <<main_vars, fetch_vars>>

\* Lines 551-604: one invoker of call c runs to its end; its process writes
\* to the call's output path or not; True returns the path, False leads to
\* the next backend or, after the last, to the cleanup; an invoker that
\* raises ends the call
ConcAttempt(c) ==
    /\ conc_pc[c] = "trying"
    /\ LET p == conc_output_path[c]
       IN  \E ok \in BOOLEAN : \E o \in ProcessOutcomes(ok) :
             LET kind == FileAfter(temp_dir[p].kind, o.wrote)
             IN  /\ temp_dir' = [temp_dir EXCEPT
                                    ![p] = IF o.wrote = "nothing" THEN @
                                           ELSE [kind |-> kind, by |-> c]]
                 /\ \/ /\ InvokerVerdict(o.exit, kind) = "true"
                       /\ conc_pc' = [conc_pc EXCEPT ![c] = "returned"]
                       /\ conc_result' = [conc_result EXCEPT ![c] = "path"]
                    \/ /\ InvokerVerdict(o.exit, kind) = "false"
                       /\ \E last \in BOOLEAN :
                             conc_pc' = [conc_pc EXCEPT
                                            ![c] = IF last THEN "exhausted" ELSE "trying"]
                       /\ UNCHANGED conc_result
                    \/ /\ conc_pc' = [conc_pc EXCEPT ![c] = "returned"]
                       /\ conc_result' = [conc_result EXCEPT ![c] = "raised"]
    /\ UNCHANGED <<main_vars, fetch_vars, conc_output_path>>

\* Lines 606-609: all methods failed: call c unlinks its output path if a
\* file is there, and returns None
ConcCleanup(c) ==
    /\ conc_pc[c] = "exhausted"
    /\ temp_dir' = [temp_dir EXCEPT ![conc_output_path[c]] = NoFile]
    /\ conc_pc' = [conc_pc EXCEPT ![c] = "returned"]
    /\ conc_result' = [conc_result EXCEPT ![c] = "None"]
    /\ UNCHANGED <<main_vars, fetch_vars, conc_output_path>>

\* The caller of call c has taken the result (and the file, if a path was
\* returned) and the downloader is free for its next call; a file that a
\* call ended by an exception left behind stays, belonging to no call
ConcTakeResult(c) ==
    /\ conc_pc[c] = "returned"
    /\ temp_dir' = IF conc_result[c] = "path"
                   THEN [temp_dir EXCEPT ![conc_output_path[c]] = NoFile]
                   ELSE [temp_dir EXCEPT ![conc_output_path[c]] =
                            IF @.by = c THEN [@ EXCEPT !.by = 0] ELSE @]
    /\ conc_pc' = [conc_pc EXCEPT ![c] = "idle"]
    /\ conc_output_path' = [conc_output_path EXCEPT ![c] = 0]
    /\ conc_result' = [conc_result EXCEPT ![c] = "none"]
    /\ UNCHANGED <<main_vars, fetch_vars>>

ConcNext ==
    \E c \in Callers :
        \/ ConcAllocate(c)
        \/ ConcAttempt(c)
        \/ ConcCleanup(c)
        \/ ConcTakeResult(c)

ConcSpec == ConcInit /\ [][ConcNext]_vars

(***************************************************************************)
(* Properties                                                              *)
(***************************************************************************)

\* _detect_backends has returned its map (the constructor got past line 41)
Detected == pc \notin {"start"} /\ error # "probe_error"

\* The constructor of SandboxCapabilities has ended, by return or by raise
ConstructionEnded == pc \notin {"start", "detected"}

\* The constructor of SandboxCapabilities has returned
Constructed == ConstructionEnded /\ pc # "init_raised"

\* C1: if SandboxCapabilities construction completes without raising, at
\* least one of FIREJAIL, BUBBLEWRAP, PODMAN, DOCKER is marked available;
\* when the detected map marks all four unavailable, construction ends with
\* the "No suitable sandboxing backend available" RuntimeError.
C1_NoInsecureFallback ==
    /\ Constructed => \E b \in Backends : available_backends[b]
    /\ (ConstructionEnded /\ Detected /\ \A b \in Backends : ~available_backends[b])
          => (pc = "init_raised" /\ error = "no_backend")

\* C1 witness: a macOS host with the firejail and bwrap binaries on the path
\* and no working container runtime: construction raised the RuntimeError
C1_Witness ==
    /\ pc = "init_raised" /\ error = "no_backend"
    /\ platform = "darwin" /\ host.firejail /\ host.bwrap
    /\ host.docker = "timeout" /\ host.podman = "missing"

C3_RaisesOnlyWithoutBackend ==
    (ConstructionEnded /\ Detected /\ \E b \in Backends : available_backends[b])
        => /\ pc # "init_raised"
           /\ recommended_backend \in Backends
           /\ available_backends[recommended_backend]

\* C4: get_max_isolation_level() returns PARANOID iff Firejail or Bubblewrap
\* is available, STRICT iff neither is but Docker or Podman is, BASIC
\* otherwise: on the map of every constructed instance that is queried, and
\* as a function of every availability map.
C4_MaxIsolationLevel ==
    /\ queried # "none" =>
          LET a == available_backends
          IN  /\ queried = PARANOID <=> (a[FIREJAIL] \/ a[BUBBLEWRAP])
              /\ queried = STRICT <=>
                    (~a[FIREJAIL] /\ ~a[BUBBLEWRAP] /\ (a[DOCKER] \/ a[PODMAN]))
              /\ queried = BASIC <=> \A b \in Backends : ~a[b]
    /\ \A a \in [SandboxBackend -> BOOLEAN] :
          LET level == GetMaxIsolationLevel(a)
          IN  /\ level = PARANOID <=> (a[FIREJAIL] \/ a[BUBBLEWRAP])
              /\ level = STRICT <=>
                    (~a[FIREJAIL] /\ ~a[BUBBLEWRAP] /\ (a[DOCKER] \/ a[PODMAN]))
              /\ level = BASIC <=> \A b \in Backends : ~a[b]

\* C4 witness: a constructed instance with only Podman available (Linux)
\* was queried and answered STRICT
C4_Witness ==
    /\ queried = STRICT
    /\ available_backends[PODMAN]
    /\ \A b \in Backends \ {PODMAN} : ~available_backends[b]

\* A sandboxed_download call has ended, by return or by raise
CallEnded == pc = "done"

\* Every invoker the current call invoked returned False
AllInvokedReturnedFalse == \A b \in Backends : ret[b] \in {"notcalled", "false"}

C6_FallbackExhaustive ==
    CallEnded =>
        \A s \in Backends :
            ( /\ available_backends[s] /\ fetch_ok[s]
              /\ ret[s] # "raised"
              /\ \A b \in Backends \ {s} : ret[b] \in {"notcalled", "false"} )
            => (result = "path" /\ ret[s] = "true")

\* C6 witness: FIREJAIL resolved, all four available, only Docker's fetch
\* works: the call went through Firejail, Bubblewrap and Podman and returned
\* the path after Docker
C6_Witness ==
    /\ CallEnded /\ result = "path"
    /\ backend = FIREJAIL
    /\ trace = <<FIREJAIL, BUBBLEWRAP, PODMAN, DOCKER>>
    /\ ret[DOCKER] = "true"
    /\ \A b \in {FIREJAIL, BUBBLEWRAP, PODMAN} : ret[b] = "false"

\* The invokers a call is to go through when every one fails: the resolved
\* backend if available, then FIREJAIL, BUBBLEWRAP, PODMAN, DOCKER without
\* the resolved one and without the unavailable ones
C7_FullOrder ==
    (IF available_backends[backend] THEN <<backend>> ELSE <<>>)
    \o SelectSeq(<<FIREJAIL, BUBBLEWRAP, PODMAN, DOCKER>>,
                 LAMBDA b : b # backend /\ available_backends[b])

\* C7: the invokers are called in the fixed order FIREJAIL, BUBBLEWRAP,
\* PODMAN, DOCKER after the first attempt, skipping the backend already tried
\* and the unavailable ones; none starts before the previous one has
\* returned; the first success returns the path and nothing is invoked after
\* it; None is returned only after the whole order was gone through.
C7_SequentialFallback ==
    (pc \in {"first", "invoke", "running", "returned", "fallback", "done"}) =>
        /\ Len(trace) <= Len(C7_FullOrder)
        /\ trace = SubSeq(C7_FullOrder, 1, Len(trace))
        /\ \A i \in 1..Len(trace) :
              /\ i < Len(trace) => ret[trace[i]] = "false"
              /\ ret[trace[i]] = "running" => (i = Len(trace) /\ cur = trace[i])
        /\ result = "path" => (trace # <<>> /\ ret[trace[Len(trace)]] = "true")
        /\ result = "None" => (trace = C7_FullOrder /\ AllInvokedReturnedFalse)

\* C7 witness: PODMAN configured, Bubblewrap unavailable: after Podman
\* failed the call tried Firejail, then Docker, which succeeded
C7_Witness ==
    /\ CallEnded /\ result = "path"
    /\ backend = PODMAN /\ ~available_backends[BUBBLEWRAP]
    /\ trace = <<PODMAN, FIREJAIL, DOCKER>>

\* Number of times the current call invoked backend b
TimesInvoked(b) == Cardinality({i \in DOMAIN trace : trace[i] = b})

\* C8 as stated: every call attempts the resolved backend's invoker first
\* and exactly once; if it returns success the call returns the output path
\* at once, no other invoker is invoked and a file exists at the path.
\* (Stated of the calls that return, so that no exception is involved.)
C8_ResolvedFirstOnce_Original ==
    (CallEnded /\ result # "raised") =>
        /\ trace # <<>> /\ trace[1] = backend
        /\ TimesInvoked(backend) = 1
        /\ ret[backend] = "true" =>
              (result = "path" /\ trace = <<backend>> /\ out_file # "absent")

\* C8 amended: if Capabilities marks the resolved backend available, the
\* call attempts its invoker first and exactly once; if it returns success
\* the call returns the output path (caller-supplied or allocated) at once,
\* no other invoker is invoked, and a file exists at the returned path (and
\* no generated script is left).
C8_ResolvedFirstOnce ==
    (backend \in Backends /\ available_backends[backend]) =>
        /\ (pc \in {"running", "returned", "fallback", "done"}) =>
              (trace # <<>> /\ trace[1] = backend /\ TimesInvoked(backend) = 1)
        /\ ret[backend] = "true" =>
              /\ trace = <<backend>>
              /\ pc \in {"returned", "done"}
              /\ out_file # "absent" /\ ~script_exists
              /\ CallEnded => (result = "path" /\ output_path \in {"given", "temp"})

\* C8 witness: the resolved backend succeeded at the first attempt on an
\* allocated temp path and the call returned it
C8_Witness ==
    /\ CallEnded /\ result = "path" /\ output_path = "temp"
    /\ backend = BUBBLEWRAP /\ trace = <<BUBBLEWRAP>>
    /\ available_backends[FIREJAIL] /\ available_backends[DOCKER]
    /\ out_file = "doc"

\* The decimal number a string of digits denotes (-1 if it is none)
RECURSIVE ParseDec(_)
ParseDec(str) ==
    IF Len(str) = 0 THEN -1
    ELSE LET last == SubSeq(str, Len(str), Len(str))
             d == IF \E k \in 0..9 : SubSeq("0123456789", k + 1, k + 1) = last
                  THEN CHOOSE k \in 0..9 : SubSeq("0123456789", k + 1, k + 1) = last
                  ELSE -1
         IN  IF d = -1 THEN -1
             ELSE IF Len(str) = 1 THEN d
             ELSE LET rest == ParseDec(SubSeq(str, 1, Len(str) - 1))
                  IN  IF rest = -1 THEN -1 ELSE 10 * rest + d

\* String sub occurs in string str
Contains(str, sub) ==
    \E i \in 1..(Len(str) - Len(sub) + 1) : SubSeq(str, i, i + Len(sub) - 1) = sub

\* Argument list args holds flag immediately followed by a value satisfying P
FlagThen(args, flag, P(_)) ==
    \E i \in 1..(Len(args) - 1) : args[i] = flag /\ P(args[i + 1])

\* C9: the argument list the Docker and Podman invokers hand to
\* subprocess.run holds --rm, --read-only, --network followed by bridge,
\* --security-opt followed by a value containing no-new-privileges:true, and
\* --memory followed by exactly "<max_memory_mb>m" ("256m" for 256).
C9_ContainerSecurityTokens ==
    (pc = "running" /\ cur \in {DOCKER, PODMAN}) =>
        /\ cmd[1] = cur
        /\ \E i \in DOMAIN cmd : cmd[i] = "--rm"
        /\ \E i \in DOMAIN cmd : cmd[i] = "--read-only"
        /\ FlagThen(cmd, "--network", LAMBDA v : v = "bridge")
        /\ FlagThen(cmd, "--security-opt", LAMBDA v : Contains(v, "no-new-privileges:true"))
        /\ FlagThen(cmd, "--memory",
                    LAMBDA v : /\ Len(v) >= 2
                               /\ SubSeq(v, Len(v), Len(v)) = "m"
                               /\ ParseDec(SubSeq(v, 1, Len(v) - 1)) = config.max_memory_mb)
        /\ config.max_memory_mb = 256 => FlagThen(cmd, "--memory", LAMBDA v : v = "256m")

\* C9 witness: the Docker invoker is running with max_memory_mb = 256 and
\* its argument list holds --memory 256m
C9_Witness ==
    /\ pc = "running" /\ cur = DOCKER
    /\ config.max_memory_mb = 256
    /\ FlagThen(cmd, "--memory", LAMBDA v : v = "256m")

\* C10: no run_<backend>_download invoker raises to its caller: every
\* exception of any step becomes a False return value.
C10_InvokerNeverRaises ==
    \A b \in Backends : ret[b] # "raised"

C12_NoRaiseOnFetchFailure ==
    (CallEnded /\ raised_by \notin {"script_unlink", "output_unlink"}) =>
        result \in {"path", "None"}

\* The probes of the construction in progress have run and what they met is
\* still on record
Probed == pc \in {"detected", "ranked", "init_raised"}

\* C13: probing Docker or Podman never raises to the caller of the
\* SandboxCapabilities constructor: a missing binary, a non-zero exit of the
\* info subcommand, a timeout, a not-found error and any other process error
\* all mark that backend unavailable, and the other backends are still
\* probed (each container backend is marked available exactly when its info
\* subcommand exited with status zero).
C13_ContainerProbeNeverRaises ==
    Probed =>
        /\ error # "probe_error"
        /\ available_backends[DOCKER] = (host.docker = "exit0")
        /\ available_backends[PODMAN] = (host.podman = "exit0")

\* C14: on every non-Linux platform FIREJAIL and BUBBLEWRAP are marked
\* unavailable whether or not their binaries are on the search path; on
\* Linux each is marked available exactly when its binary is found; AUTO is
\* marked available on every platform.
C14_PlatformGatedDetection ==
    (Probed /\ Detected) =>
        /\ available_backends[AUTO]
        /\ platform # "linux" =>
               (~available_backends[FIREJAIL] /\ ~available_backends[BUBBLEWRAP])
        /\ platform = "linux" =>
               /\ available_backends[FIREJAIL] = host.firejail
               /\ available_backends[BUBBLEWRAP] = host.bwrap

\* C14 witness: a macOS host with both firejail and bwrap on the search path
\* was probed, and both are marked unavailable
C14_Witness ==
    /\ pc = "ranked" /\ platform = "darwin"
    /\ host.firejail /\ host.bwrap
    /\ ~available_backends[FIREJAIL] /\ ~available_backends[BUBBLEWRAP]
    /\ available_backends[AUTO]

C16_NetworkLeftReachable ==
    (pc = "running") =>
        /\ cur = FIREJAIL => \A i \in DOMAIN cmd : cmd[i] # "--net=none"
        /\ cur = BUBBLEWRAP => \A i \in DOMAIN cmd : cmd[i] # "--unshare-net"

\* C17: on a non-Linux platform, when Podman is available the recommended
\* backend is PODMAN, and otherwise when Docker is available the
\* recommended backend is DOCKER.  (Stated over the constructions that
\* returned, so that the raise of the Podman-only host does not enter.)
C17_NonLinuxPodmanPreferred ==
    (Constructed /\ platform # "linux") =>
        /\ available_backends[PODMAN] => recommended_backend = PODMAN
        /\ (~available_backends[PODMAN] /\ available_backends[DOCKER]) =>
               recommended_backend = DOCKER

\* The fetch program has exited
FetchEnded == fetch_pc \in {"exit0", "exit1"}

\* What the invoker returns for the fetch program that has exited, the
\* output path holding no file before the fetch
FetchInvokerValue ==
    InvokerVerdict(IF fetch_pc = "exit0" THEN "exit0" ELSE "nonzero",
                   IF output_written THEN "doc" ELSE "absent")

\* C18: whichever backend runs the fetch, a url whose scheme is not http or
\* https is rejected inside the sandbox before any network or resource
\* access is attempted, and the invoker returns False.
C18_NonHttpSchemeRejected ==
    (fetch_pc # "off" /\ UrlScheme(fetch_url) \notin {"http", "https"}) =>
        /\ ~accessed
        /\ FetchEnded => (fetch_pc = "exit1" /\ FetchInvokerValue = "false")

\* The host of the url ends with one of the allowed domains, letter case
\* set aside
HostMatchesAllowed ==
    \E i \in DOMAIN allowed_domains :
        EndsWith(ToLower(UrlNetloc(fetch_url)), ToLower(allowed_domains[i]))

\* C19: whichever backend runs the fetch, when an allowed-domain list is
\* configured the fetch proceeds only if the host of the url ends with one
\* of the allowed domains, compared without regard to letter case: a host
\* matching none is rejected (never accessed), and a host differing from an
\* allowed domain only in letter case is accepted (an http or https url
\* with such a host is fetched).
C19_DomainAllowListCaseInsensitive ==
    (fetch_pc # "off" /\ allowed_domains # <<>>) =>
        /\ accessed => HostMatchesAllowed
        /\ (FetchEnded /\ UrlScheme(fetch_url) \in {"http", "https"} /\ HostMatchesAllowed)
               => accessed

\* The content length the response declares is above max_file_size
DeclaredOversize == response.has_length /\ response.length > max_size

\* C20: for every backend's fetch program and every max_file_size, if the
\* declared content length or the number of bytes received exceeds
\* max_file_size, the fetch ends with a failure exit and at no time writes
\* anything to the output file; a body of exactly max_file_size bytes (with
\* no larger length declared) is accepted and written whole.  (The count
\* of bytes received never passes the body, so the receiving loop ends.)
C20_SizeLimitEnforced ==
    (fetch_pc # "off") =>
        /\ downloaded <= response.body
        /\ (DeclaredOversize \/ response.body > max_size) =>
               /\ ~output_written
               /\ fetch_pc # "exit0"
        /\ output_written => (written = response.body /\ written <= max_size)
        /\ (FetchEnded /\ accessed /\ response.serves /\ ~DeclaredOversize
                /\ response.body = max_size) =>
               (fetch_pc = "exit0" /\ output_written /\ written = max_size)

\* C20 witness: the Firejail script, with max_file_size 20000 and no length
\* declared, received a byte more than allowed in its third chunk and
\* exited with failure, having written nothing
C20_Witness ==
    /\ fetch_pc = "exit1" /\ fetch_backend = FIREJAIL
    /\ max_size = 20000 /\ ~response.has_length
    /\ response.body = max_size + 1 /\ downloaded = max_size + 1
    /\ ~output_written

\* Argument list args holds the token tok
HasToken(args, tok) == \E i \in DOMAIN args : args[i] = tok

\* C21: every Firejail invocation literally includes --noprofile, --seccomp
\* and --noroot, and every Bubblewrap invocation literally includes
\* --die-with-parent and --unshare-pid, whatever the url, the output path
\* and the configuration.
C21_MandatoryIsolationFlags ==
    (pc = "running") =>
        /\ cur = FIREJAIL =>
               /\ cmd[1] = "firejail"
               /\ HasToken(cmd, "--noprofile")
               /\ HasToken(cmd, "--seccomp")
               /\ HasToken(cmd, "--noroot")
        /\ cur = BUBBLEWRAP =>
               /\ cmd[1] = "bwrap"
               /\ HasToken(cmd, "--die-with-parent")
               /\ HasToken(cmd, "--unshare-pid")

\* C21 witness: the Firejail invoker is running with the temp output path
\* and the smallest configuration, its argument list holding the three flags
C21_Witness ==
    /\ pc = "running" /\ cur = FIREJAIL
    /\ output_path = "temp" /\ config.max_file_size = 7
    /\ HasToken(cmd, "--noprofile") /\ HasToken(cmd, "--seccomp")
    /\ HasToken(cmd, "--noroot")

ConcActive(c) == conc_pc[c] \in {"trying", "exhausted"}

\* Call c is in progress or has returned its output path as its result
ConcInUse(c) ==
    ConcActive(c) \/ (conc_pc[c] = "returned" /\ conc_result[c] = "path")

\* C23: independent downloaders run sandboxed_download concurrently over the
\* shared temp directory with auto-allocated output paths.  Under every
\* interleaving no two calls hold the same output path; the file at a
\* call's output path exists and was last touched by that call, from the
\* allocation until the call returns; and a path returned as a result still
\* holds the file its call left there (no other call's failure cleanup
\* deleted or replaced it).
C23_ConcurrentCallsDisjoint ==
    (\A c \in Callers : conc_pc[c] # "off") =>
        /\ \A c, d \in Callers :
              (c # d /\ ConcInUse(c) /\ ConcInUse(d)) =>
                  conc_output_path[c] # conc_output_path[d]
        /\ \A c \in Callers :
              ConcInUse(c) =>
                  /\ conc_output_path[c] \in TempNames
                  /\ temp_dir[conc_output_path[c]].kind # "absent"
                  /\ temp_dir[conc_output_path[c]].by = c

\* C23 witness: downloader 1 is about to run its failure cleanup while
\* downloader 2 has returned its path, and the file at that path is there
C23_Witness ==
    /\ conc_pc[1] = "exhausted"
    /\ conc_pc[2] = "returned" /\ conc_result[2] = "path"
    /\ temp_dir[conc_output_path[2]].by = 2
    /\ temp_dir[conc_output_path[1]].by = 1

\* The number after prefix in the token of args that starts with prefix
\* (-1 if no token does)
NumberAfter(args, prefix) ==
    IF \E i \in DOMAIN args :
          Len(args[i]) > Len(prefix) /\ SubSeq(args[i], 1, Len(prefix)) = prefix
    THEN LET i == CHOOSE i \in DOMAIN args :
                     Len(args[i]) > Len(prefix) /\ SubSeq(args[i], 1, Len(prefix)) = prefix
         IN  ParseDec(SubSeq(args[i], Len(prefix) + 1, Len(args[i])))
    ELSE -1

\* C24: for every invoker and every valid configuration (any positive
\* download_timeout), the timeout of the outer subprocess wait is strictly
\* longer than the fetch timeout inside the sandbox and than the sandbox's
\* own timeout (Firejail's --timeout), so the outer timeout fires only after
\* the inner ones could have.
C24_OuterTimeoutLongest ==
    (pc = "running") =>
        /\ config.download_timeout > 0
        /\ SubprocessTimeout(cur) > config.download_timeout
        /\ cur = FIREJAIL => SubprocessTimeout(cur) > NumberAfter(cmd, "--timeout=")

\* C25: a failure of a cleanup step (deleting the generated script in an
\* invoker, deleting the output file after total failure) is swallowed: the
\* invoker still returns the verdict of its process (True for exit status
\* zero with the output file present, False otherwise), sandboxed_download
\* still returns None after total failure, and no cleanup exception ever
\* reaches the caller.
C25_CleanupFailureSwallowed ==
    /\ raised_by \notin {"script_unlink", "output_unlink"}
    /\ (pc = "returned" /\ cur \in Backends) =>
           ret[cur] = (IF exit_status = "exit0" /\ out_file # "absent"
                       THEN "true" ELSE "false")
    /\ (CallEnded /\ AllInvokedReturnedFalse) => result = "None"

\* C26: on every successfully constructed SandboxCapabilities the maximum
\* isolation level agrees with the tier of the recommended backend: it is
\* PARANOID exactly when the recommended backend is FIREJAIL or BUBBLEWRAP
\* and STRICT exactly when it is PODMAN or DOCKER, so neither BASIC nor NONE
\* is ever reported.
C26_MaxLevelMatchesRecommendedTier ==
    (Constructed /\ queried # "none") =>
        /\ queried = PARANOID <=> recommended_backend \in {FIREJAIL, BUBBLEWRAP}
        /\ queried = STRICT <=> recommended_backend \in {PODMAN, DOCKER}
        /\ queried \notin {BASIC, NONE}

\* C26 witness: a Linux host with Bubblewrap and a container runtime, where
\* BUBBLEWRAP is recommended and the level queried is PARANOID
C26_Witness ==
    /\ Constructed /\ platform = "linux"
    /\ recommended_backend = BUBBLEWRAP
    /\ available_backends[DOCKER]
    /\ queried = PARANOID

\* Argument list args holds flag followed by the pair src, dst
BindsPair(args, flag, src, dst) ==
    \E i \in 1..(Len(args) - 2) :
        args[i] = flag /\ args[i + 1] = src /\ args[i + 2] = dst

\* Path p lies inside directory dir
PathInside(p, dir) ==
    /\ Len(p) > Len(dir) + 1
    /\ SubSeq(p, 1, Len(dir) + 1) = dir \o "/"

\* C27: in every Bubblewrap invocation the only host path bound read-write
\* into the sandbox is the output directory: /usr, /bin, /lib, /lib64 and
\* the generated fetch script are bound read-only (--ro-bind), and the path
\* the generated script writes to lies inside the read-write bind, so that
\* a successful fetch shows at output_path on the host.
C27_BubblewrapBinds ==
    (pc = "running" /\ cur = BUBBLEWRAP) =>
        /\ \A d \in {"/usr", "/bin", "/lib", "/lib64"} : BindsPair(cmd, "--ro-bind", d, d)
        /\ BindsPair(cmd, "--ro-bind", ScriptPath, "/tmp/download_script.py")
        /\ \A i \in 1..(Len(cmd) - 2) :
              cmd[i] = "--bind" => cmd[i + 1] = PathParent(OutputPathStr)
        /\ \E i \in 1..(Len(cmd) - 2) :
              /\ cmd[i] = "--bind"
              /\ cmd[i + 1] = PathParent(OutputPathStr)
              /\ PathInside(ScriptOutputPath(OutputPathStr), cmd[i + 2])

\* A sandboxed_download call is under way
InCall == pc \in {"first", "fallback", "invoke", "running", "returned"}

\* How far the current call has come: the position in fallback_order, then
\* the step within the attempt
CallProgress ==
    idx * 5 + (CASE pc = "first"    -> 0
                 [] pc = "fallback" -> 1
                 [] pc = "invoke"   -> 2
                 [] pc = "running"  -> 3
                 [] pc = "returned" -> 4
                 [] OTHER           -> 5)

C29_UnavailableNeverInvoked ==
    calls > 0 =>
        /\ \A i \in DOMAIN trace : available_backends[trace[i]]
        /\ \A b \in Backends : ~available_backends[b] => ret[b] = "notcalled"
        /\ ~available_backends[backend] =>
              LET others == SelectSeq(FallbackOrder,
                                      LAMBDA b : available_backends[b])
              IN /\ TimesInvoked(backend) = 0
                 /\ Len(trace) <= Len(others)
                 /\ trace = SubSeq(others, 1, Len(trace))
                 /\ result = "None" => trace = others

\* C29 witness: DOCKER was configured explicitly though unavailable; the
\* call passed it over, tried Firejail, which failed, and succeeded with
\* Podman
C29_Witness ==
    /\ CallEnded /\ result = "path"
    /\ backend = DOCKER /\ ~available_backends[DOCKER]
    /\ trace = <<FIREJAIL, PODMAN>>

\* C30 as stated: a success is backed by content the succeeding fetch wrote:
\* an invoker whose process exited zero without writing the output file
\* does not return True, so a call that returns the path never leaves the
\* empty placeholder, a stale partial file or an older file there.
C30_SuccessBackedByContent ==
    /\ (pc = "returned" /\ ret[cur] = "true") => out_file = "doc"
    /\ (CallEnded /\ result = "path") => out_file = "doc"

=============================================================================
